---- MODULE Spec2Model ----
(***************************************************************************)
(* Model of src/subscription/subscribe.js: subscribe() and                 *)
(* createSourceEventStream(), together with the collaborators they call    *)
(* (the execution engine's helpers and mapAsyncIterator), the source event *)
(* stream the resolver hands back and a sequential consumer of the mapped  *)
(* iterator.                                                               *)
(***************************************************************************)
EXTENDS Naturals, Sequences, FiniteSets

(* ------------------------------ bounds --------------------------------- *)
\* longest top-level selection set of a document
MaxSel == 2
\* next() calls the consumer makes on the mapped iterator
MaxNext == 3
\* return()/throw() calls the consumer makes on the mapped iterator
MaxCancel == 1

(* ------------------------------ values --------------------------------- *)
FieldNames == {"f", "g"}
Aliases == {"", "a"}
PropKinds == {"plain", "stream", "error"}

\* A JavaScript value as far as subscribe.js can tell values apart:
\* kind "none" (nothing), "undefined"/"plain" (not async-iterable), "error"
\* (instanceof Error), "stream" (async-iterable), "mapped" (the iterator
\* mapAsyncIterator builds); id tells objects of one kind apart.
Val(k, i) == [kind |-> k, id |-> i]
NoValue == Val("none", "")

\* rootValue / event payloads: null, an object with one property per field
\* name, or the n-th event the source emits.
UndefProps == [x \in FieldNames |-> "undefined"]
NullRoot == [kind |-> "null", props |-> UndefProps, n |-> 0]
ObjectRoot(p) == [kind |-> "object", props |-> p, n |-> 0]
Event(k) == [kind |-> "event", props |-> UndefProps, n |-> k]
RootValues == {NullRoot} \cup {ObjectRoot(p) : p \in [FieldNames -> PropKinds]}

\* A field node of the operation's selection set: `alias: name`.
Nodes == [alias : Aliases, name : FieldNames]
SelSeqs == UNION {[1..n -> Nodes] : n \in 1..MaxSel}
\* valid = buildExecutionContext accepts the document/variables/operationName
Documents == [valid : BOOLEAN, selections : SelSeqs]

\* The subscription root type: per field name, no such field, a field
\* without a subscribe resolver, or a field that declares one.
Schemas == [FieldNames -> {"absent", "default", "subscribe"}]

\* What a declared subscribe resolver does when it is invoked.
ResolverBehaviours == {"throw", "error", "plain", "stream"}

ExactlyOneRootField == "A subscription operation must contain exactly one root field."
NotDefinedBySchema == "This subscription is not defined by the schema."
MustReturnAsyncIterable == "Subscription must return Async Iterable."

VARIABLES
    args,           \* the six arguments of subscribe()
    pc,             \* position inside subscribe()/createSourceEventStream()
    state,          \* lifecycle of the subscription instance
    fields,         \* collectFields' result, in key insertion order
    fieldDef,       \* getFieldDef's result
    resolverCalls,  \* invocations of the event-producing resolver
    resolverRaw,    \* what the resolver itself did (threw / returned)
    subscription,   \* resolveFieldValueOrError's result
    iterableChecks, \* number of isAsyncIterable() calls made
    thrown,         \* what subscribe() threw to its caller
    returned,       \* what subscribe() returned to its caller
    src,            \* the source event stream
    mapper,         \* the mapped iterator's own state
    phase,          \* the outstanding call on the mapped iterator
    calls,          \* calls the consumer made on the mapped iterator
    outcomes,       \* how each next() on the mapped iterator settled
    cancels,        \* how each return()/throw() on the mapped iterator settled
    execCalls,      \* argument lists of the execute() calls, in order
    inFlight        \* execute() passes started and not yet settled

cvars == <<args, pc, fields, fieldDef, resolverCalls, resolverRaw,
           subscription, iterableChecks, thrown, returned>>
ivars == <<src, mapper, phase, calls, outcomes, cancels, execCalls, inFlight>>
vars == <<args, pc, state, fields, fieldDef, resolverCalls, resolverRaw,
          subscription, iterableChecks, thrown, returned,
          src, mapper, phase, calls, outcomes, cancels, execCalls, inFlight>>

(* --------------------- execution-engine helpers ------------------------ *)
ResponseKey(node) == IF node.alias = "" THEN node.name ELSE node.alias

AddNode(acc, node) ==
    LET key == ResponseKey(node)
        hit == {i \in 1..Len(acc) : acc[i].key = key}
    IN  IF hit = {}
        THEN Append(acc, [key |-> key, nodes |-> <<node>>])
        ELSE [i \in 1..Len(acc) |->
                 IF i \in hit
                 THEN [key |-> key, nodes |-> Append(acc[i].nodes, node)]
                 ELSE acc[i]]

RECURSIVE CollectInto(_, _)
CollectInto(sel, acc) ==
    IF sel = <<>> THEN acc ELSE CollectInto(Tail(sel), AddNode(acc, Head(sel)))

\* response key -> ordered field nodes, keys in insertion order
collectFields(document) == CollectInto(document.selections, <<>>)

getFieldDef(schema, name) ==
    [name |-> name,
     kind |-> IF name \in DOMAIN schema THEN schema[name] ELSE "absent"]

\* reads the same-named property off the root value
defaultFieldResolver(source, fieldName) ==
    LET p == source.props[fieldName]
    IN  IF p = "undefined" THEN Val("undefined", "")
        ELSE Val(p, "rootValue." \o fieldName)

\* a declared subscribe resolver behaving as b
declaredResolver(b, fieldName) ==
    IF b = "throw" THEN [threw |-> TRUE, val |-> Val("error", "thrown by " \o fieldName)]
    ELSE IF b = "error" THEN [threw |-> FALSE, val |-> Val("error", "returned by " \o fieldName)]
    ELSE IF b = "plain" THEN [threw |-> FALSE, val |-> Val("plain", "from " \o fieldName)]
    ELSE [threw |-> FALSE, val |-> Val("stream", "from " \o fieldName)]

\* a synchronous throw of the resolver comes back as the error itself
resolveFieldValueOrError(raw) == raw.val

isAsyncIterable(v) == v.kind = "stream"

(* ------------------------------- Init ---------------------------------- *)
NewSource == [hasReturn |-> FALSE, hasThrow |-> FALSE, done |-> FALSE,
              emitted |-> 0, log |-> <<>>, nextCalls |-> 0,
              returnCalls |-> 0, throwCalls |-> 0]
NewMapper == [closed |-> FALSE, terminalAfterError |-> FALSE]
NoCalls == [next |-> 0, return |-> 0, throw |-> 0]

Init ==
    /\ args \in [schema : Schemas, document : Documents, rootValue : RootValues,
                 contextValue : {"C"}, variableValues : {"V"}, operationName : {"N"}]
    /\ pc = "createSourceEventStream"
    /\ state = "CREATED"
    /\ fields = <<>>
    /\ fieldDef = [name |-> "", kind |-> "absent"]
    /\ resolverCalls = <<>>
    /\ resolverRaw = [threw |-> FALSE, val |-> NoValue]
    /\ subscription = NoValue
    /\ iterableChecks = 0
    /\ thrown = NoValue
    /\ returned = NoValue
    /\ src = NewSource
    /\ mapper = NewMapper
    /\ phase = "idle"
    /\ calls = NoCalls
    /\ outcomes = <<>>
    /\ cancels = <<>>
    /\ execCalls = <<>>
    /\ inFlight = 0

(* ---------------- createSourceEventStream, step by step ---------------- *)
\* an exception leaves createSourceEventStream and subscribe (no try/catch)
Throw(err) ==
    /\ thrown' = err
    /\ pc' = "thrown"
    /\ state' = "REJECTED"

BuildExecutionContext ==
    /\ pc = "createSourceEventStream"
    /\ IF args.document.valid
       THEN /\ pc' = "collectFields"
            /\ UNCHANGED <<thrown, state>>
       ELSE Throw(Val("validation", "RequestValidationError"))
    /\ UNCHANGED <<args, fields, fieldDef, resolverCalls, resolverRaw,
                   subscription, iterableChecks, returned>>
    /\ UNCHANGED ivars

\* variant of CollectFields that looks the first field up before counting
CollectFields_lookupFirst ==
    /\ pc = "collectFields"
    /\ fields' = collectFields(args.document)
    /\ IF getFieldDef(args.schema, fields'[1].nodes[1].name).kind = "absent"
       THEN Throw(Val("invariant", NotDefinedBySchema))
       ELSE IF Len(fields') = 1
            THEN /\ pc' = "getFieldDef"
                 /\ UNCHANGED <<thrown, state>>
            ELSE Throw(Val("invariant", ExactlyOneRootField))
    /\ UNCHANGED <<args, fieldDef, resolverCalls, resolverRaw,
                   subscription, iterableChecks, returned>>
    /\ UNCHANGED ivars

\* variant of CollectFields whose check is `responseNames.length >= 1`
CollectFields_atLeastOne ==
    /\ pc = "collectFields"
    /\ fields' = collectFields(args.document)
    /\ IF Len(fields') >= 1
       THEN /\ pc' = "getFieldDef"
            /\ UNCHANGED <<thrown, state>>
       ELSE Throw(Val("invariant", ExactlyOneRootField))
    /\ UNCHANGED <<args, fieldDef, resolverCalls, resolverRaw,
                   subscription, iterableChecks, returned>>
    /\ UNCHANGED ivars

CollectFields ==
    /\ pc = "collectFields"
    /\ fields' = collectFields(args.document)
    /\ IF Len(fields') = 1
       THEN /\ pc' = "getFieldDef"
            /\ UNCHANGED <<thrown, state>>
       ELSE Throw(Val("invariant", ExactlyOneRootField))
    /\ UNCHANGED <<args, fieldDef, resolverCalls, resolverRaw,
                   subscription, iterableChecks, returned>>
    /\ UNCHANGED ivars

\* variant of GetFieldDef without the invariant on fieldDef
GetFieldDef_unchecked ==
    /\ pc = "getFieldDef"
    /\ fieldDef' = getFieldDef(args.schema, fields[1].nodes[1].name)
    /\ pc' = "resolve"
    /\ UNCHANGED <<thrown, state>>
    /\ UNCHANGED <<args, fields, resolverCalls, resolverRaw,
                   subscription, iterableChecks, returned>>
    /\ UNCHANGED ivars

\* variant of GetFieldDef that looks the field up by its response key
GetFieldDef_byResponseKey ==
    /\ pc = "getFieldDef"
    /\ LET responseName == fields[1].key
       IN  fieldDef' = getFieldDef(args.schema, responseName)
    /\ IF fieldDef'.kind # "absent"
       THEN /\ pc' = "resolve"
            /\ UNCHANGED <<thrown, state>>
       ELSE Throw(Val("invariant", NotDefinedBySchema))
    /\ UNCHANGED <<args, fields, resolverCalls, resolverRaw,
                   subscription, iterableChecks, returned>>
    /\ UNCHANGED ivars

GetFieldDef ==
    /\ pc = "getFieldDef"
    /\ LET responseName == fields[1].key
           fieldNodes == fields[1].nodes
           fieldNode == fieldNodes[1]
       IN  fieldDef' = getFieldDef(args.schema, fieldNode.name)
    /\ IF fieldDef'.kind # "absent"
       THEN /\ pc' = "resolve"
            /\ UNCHANGED <<thrown, state>>
       ELSE Throw(Val("invariant", NotDefinedBySchema))
    /\ UNCHANGED <<args, fields, resolverCalls, resolverRaw,
                   subscription, iterableChecks, returned>>
    /\ UNCHANGED ivars

\* variant of resolveFn that ignores fieldDef.subscribe
resolveFn_alwaysDefault(def) == "defaultFieldResolver"

\* fieldDef.subscribe || defaultFieldResolver
resolveFn(def) == IF def.kind = "subscribe" THEN "subscribe" ELSE "defaultFieldResolver"

\* buildResolveInfo's path argument: addPath(undefined, responseName)
infoPath(responseName) == <<responseName>>

ResolveFieldEventStream ==
    /\ pc = "resolve"
    /\ \E b \in ResolverBehaviours, hr \in BOOLEAN, ht \in BOOLEAN :
          LET fn == resolveFn(fieldDef)
              raw == IF fn = "subscribe"
                     THEN declaredResolver(b, fieldDef.name)
                     ELSE [threw |-> FALSE,
                           val |-> defaultFieldResolver(args.rootValue, fieldDef.name)]
          IN  /\ resolverCalls' = Append(resolverCalls,
                     [fn |-> fn, source |-> args.rootValue,
                      fieldName |-> fieldDef.name, path |-> infoPath(fields[1].key)])
              /\ resolverRaw' = raw
              /\ subscription' = resolveFieldValueOrError(raw)
              /\ src' = IF raw.val.kind = "stream"
                        THEN [NewSource EXCEPT !.hasReturn = hr, !.hasThrow = ht]
                        ELSE src
    /\ pc' = "checkError"
    /\ UNCHANGED <<args, state, fields, fieldDef, iterableChecks, thrown, returned>>
    /\ UNCHANGED <<mapper, phase, calls, outcomes, cancels, execCalls, inFlight>>

\* variant of CheckError without the `instanceof Error` test
CheckError_skipped ==
    /\ pc = "checkError"
    /\ pc' = "checkAsyncIterable"
    /\ UNCHANGED <<thrown, state>>
    /\ UNCHANGED <<args, fields, fieldDef, resolverCalls, resolverRaw,
                   subscription, iterableChecks, returned>>
    /\ UNCHANGED ivars

\* if (subscription instanceof Error) throw subscription
CheckError ==
    /\ pc = "checkError"
    /\ IF subscription.kind = "error"
       THEN Throw(subscription)
       ELSE /\ pc' = "checkAsyncIterable"
            /\ UNCHANGED <<thrown, state>>
    /\ UNCHANGED <<args, fields, fieldDef, resolverCalls, resolverRaw,
                   subscription, iterableChecks, returned>>
    /\ UNCHANGED ivars

\* variant of CheckAsyncIterable whose test is negated
CheckAsyncIterable_negated ==
    /\ pc = "checkAsyncIterable"
    /\ iterableChecks' = iterableChecks + 1
    /\ IF ~isAsyncIterable(subscription)
       THEN /\ pc' = "mapAsyncIterator"
            /\ UNCHANGED <<thrown, state>>
       ELSE Throw(Val("invariant", MustReturnAsyncIterable))
    /\ UNCHANGED <<args, fields, fieldDef, resolverCalls, resolverRaw,
                   subscription, returned>>
    /\ UNCHANGED ivars

\* variant of CheckAsyncIterable that returns the value unchecked
CheckAsyncIterable_unchecked ==
    /\ pc = "checkAsyncIterable"
    /\ pc' = "mapAsyncIterator"
    /\ UNCHANGED <<thrown, state, iterableChecks>>
    /\ UNCHANGED <<args, fields, fieldDef, resolverCalls, resolverRaw,
                   subscription, returned>>
    /\ UNCHANGED ivars

\* invariant(isAsyncIterable(subscription), ...); return subscription
CheckAsyncIterable ==
    /\ pc = "checkAsyncIterable"
    /\ iterableChecks' = iterableChecks + 1
    /\ IF isAsyncIterable(subscription)
       THEN /\ pc' = "mapAsyncIterator"
            /\ UNCHANGED <<thrown, state>>
       ELSE Throw(Val("invariant", MustReturnAsyncIterable))
    /\ UNCHANGED <<args, fields, fieldDef, resolverCalls, resolverRaw,
                   subscription, returned>>
    /\ UNCHANGED ivars

(* ------------------------------ subscribe ------------------------------ *)
\* variant of transform that executes with subscribe's rootValue
transform_rootValue(payload) ==
    [schema |-> args.schema, document |-> args.document, rootValue |-> args.rootValue,
     contextValue |-> args.contextValue, variableValues |-> args.variableValues,
     operationName |-> args.operationName]

\* variant of transform with contextValue and variableValues exchanged
transform_swapped(payload) ==
    [schema |-> args.schema, document |-> args.document, rootValue |-> payload,
     contextValue |-> args.variableValues, variableValues |-> args.contextValue,
     operationName |-> args.operationName]

\* payload => execute(schema, document, payload, contextValue,
\*                    variableValues, operationName)
transform(payload) ==
    [schema |-> args.schema, document |-> args.document, rootValue |-> payload,
     contextValue |-> args.contextValue, variableValues |-> args.variableValues,
     operationName |-> args.operationName]

\* variant of SubscribeReturn that pulls the first event eagerly
SubscribeReturn_prefetch ==
    /\ pc = "mapAsyncIterator"
    /\ \E t \in BOOLEAN : mapper' = [closed |-> FALSE, terminalAfterError |-> t]
    /\ returned' = Val("mapped", subscription.id)
    /\ state' = "ACTIVE"
    /\ pc' = "returned"
    /\ src' = [src EXCEPT !.nextCalls = @ + 1]
    /\ UNCHANGED <<args, fields, fieldDef, resolverCalls, resolverRaw,
                   subscription, iterableChecks, thrown>>
    /\ UNCHANGED <<phase, calls, outcomes, cancels, execCalls, inFlight>>

\* return mapAsyncIterator(subscription, payload => execute(...))
SubscribeReturn ==
    /\ pc = "mapAsyncIterator"
    /\ \E t \in BOOLEAN : mapper' = [closed |-> FALSE, terminalAfterError |-> t]
    /\ returned' = Val("mapped", subscription.id)
    /\ state' = "ACTIVE"
    /\ pc' = "returned"
    /\ UNCHANGED <<args, fields, fieldDef, resolverCalls, resolverRaw,
                   subscription, iterableChecks, thrown>>
    /\ UNCHANGED <<src, phase, calls, outcomes, cancels, execCalls, inFlight>>

(* --------------------------- mapAsyncIterator -------------------------- *)
\* How a next() call settles: a value (the n-th event's ExecutionResult),
\* completion, or a rejection (of the n-th source pull / the n-th event's
\* execution pass).
Outcome(t, k, r) == [type |-> t, n |-> k, reason |-> r]
Done == Outcome("done", 0, "")

\* the ExecutionResult execute() resolves with for one argument list
ExecutionResult(execArgs) == Outcome("value", execArgs.rootValue.n, "")

TerminalStates == {"COMPLETED", "ERRORED", "CANCELLED"}

\* a rejection surfaces through next()
Errored(st) == IF st \in {"ACTIVE", "ERRORED"} THEN "ERRORED" ELSE st

\* the source is exhausted
Completed(st) == IF st \in {"ACTIVE", "ERRORED"} THEN "COMPLETED" ELSE st

\* return()/throw() on a mapper in state st
Cancelled(st, closed) ==
    IF st = "ACTIVE" \/ (st = "ERRORED" /\ ~closed) THEN "CANCELLED" ELSE st

\* the consumer calls next() on the mapped iterator: the mapper pulls the
\* source, unless it is terminal already and answers with completion
MappedNext ==
    /\ pc = "returned"
    /\ phase = "idle"
    /\ calls.next < MaxNext
    /\ calls' = [calls EXCEPT !.next = @ + 1]
    /\ IF mapper.closed
       THEN /\ outcomes' = Append(outcomes, Done)
            /\ UNCHANGED <<src, phase>>
       ELSE /\ src' = [src EXCEPT !.nextCalls = @ + 1]
            /\ phase' = "awaitSource"
            /\ UNCHANGED outcomes
    /\ UNCHANGED <<state, mapper, cancels, execCalls, inFlight>>
    /\ UNCHANGED cvars

\* source.next() resolves with a value: the mapper applies the transform
SourceYields ==
    /\ phase = "awaitSource"
    /\ ~src.done
    /\ LET e == Event(src.emitted + 1)
       IN  /\ src' = [src EXCEPT !.emitted = @ + 1,
                                 !.log = Append(@, Outcome("value", e.n, ""))]
           /\ execCalls' = Append(execCalls, transform(e))
    /\ inFlight' = inFlight + 1
    /\ phase' = "awaitExecute"
    /\ UNCHANGED <<state, mapper, calls, outcomes, cancels>>
    /\ UNCHANGED cvars

\* variant of SourceCompletes that hands the absent value to the transform
SourceCompletes_transforms ==
    /\ phase = "awaitSource"
    /\ src' = [src EXCEPT !.done = TRUE, !.log = Append(@, Done)]
    /\ execCalls' = Append(execCalls, transform(Event(0)))
    /\ outcomes' = Append(outcomes, Done)
    /\ state' = Completed(state)
    /\ phase' = "idle"
    /\ UNCHANGED <<mapper, calls, cancels, inFlight>>
    /\ UNCHANGED cvars

\* source.next() resolves with done = true: completion, no transform
SourceCompletes ==
    /\ phase = "awaitSource"
    /\ src' = [src EXCEPT !.done = TRUE, !.log = Append(@, Done)]
    /\ outcomes' = Append(outcomes, Done)
    /\ state' = Completed(state)
    /\ phase' = "idle"
    /\ UNCHANGED <<mapper, calls, cancels, execCalls, inFlight>>
    /\ UNCHANGED cvars

\* variant of SourceRejects that retries the pull by itself
SourceRejects_retry ==
    /\ phase = "awaitSource"
    /\ ~src.done
    /\ LET r == Outcome("reject", src.nextCalls, "source")
       IN  /\ src' = [src EXCEPT !.log = Append(@, r), !.nextCalls = @ + 1]
           /\ outcomes' = Append(outcomes, r)
    /\ state' = Errored(state)
    /\ mapper' = [mapper EXCEPT !.closed = mapper.terminalAfterError]
    /\ phase' = "idle"
    /\ UNCHANGED <<calls, cancels, execCalls, inFlight>>
    /\ UNCHANGED cvars

\* source.next() rejects: the rejection is propagated, no transform
SourceRejects ==
    /\ phase = "awaitSource"
    /\ ~src.done
    /\ LET r == Outcome("reject", src.nextCalls, "source")
       IN  /\ src' = [src EXCEPT !.log = Append(@, r)]
           /\ outcomes' = Append(outcomes, r)
    /\ state' = Errored(state)
    /\ mapper' = [mapper EXCEPT !.closed = mapper.terminalAfterError]
    /\ phase' = "idle"
    /\ UNCHANGED <<calls, cancels, execCalls, inFlight>>
    /\ UNCHANGED cvars

\* the execution pass resolves: its result is delivered
ExecuteResolves ==
    /\ phase = "awaitExecute"
    /\ outcomes' = Append(outcomes, ExecutionResult(execCalls[Len(execCalls)]))
    /\ inFlight' = inFlight - 1
    /\ phase' = "idle"
    /\ UNCHANGED <<state, src, mapper, calls, cancels, execCalls>>
    /\ UNCHANGED cvars

\* variant of ExecuteRejects that also closes the source with return()
ExecuteRejects_closesSource ==
    /\ phase = "awaitExecute"
    /\ outcomes' = Append(outcomes,
           Outcome("reject", execCalls[Len(execCalls)].rootValue.n, "execute"))
    /\ inFlight' = inFlight - 1
    /\ state' = Errored(state)
    /\ mapper' = [mapper EXCEPT !.closed = mapper.terminalAfterError]
    /\ src' = IF src.hasReturn
              THEN [src EXCEPT !.returnCalls = @ + 1, !.done = TRUE]
              ELSE [src EXCEPT !.done = TRUE]
    /\ phase' = "idle"
    /\ UNCHANGED <<calls, cancels, execCalls>>
    /\ UNCHANGED cvars

\* the execution pass rejects or throws: that next() rejects
ExecuteRejects ==
    /\ phase = "awaitExecute"
    /\ outcomes' = Append(outcomes,
           Outcome("reject", execCalls[Len(execCalls)].rootValue.n, "execute"))
    /\ inFlight' = inFlight - 1
    /\ state' = Errored(state)
    /\ mapper' = [mapper EXCEPT !.closed = mapper.terminalAfterError]
    /\ phase' = "idle"
    /\ UNCHANGED <<src, calls, cancels, execCalls>>
    /\ UNCHANGED cvars

\* variant of MappedReturn that is terminal only when the source has return()
MappedReturn_noopStaysOpen ==
    /\ pc = "returned"
    /\ phase = "idle"
    /\ calls.return + calls.throw < MaxCancel
    /\ calls' = [calls EXCEPT !.return = @ + 1]
    /\ src' = IF src.hasReturn
              THEN [src EXCEPT !.returnCalls = @ + 1, !.done = TRUE]
              ELSE src
    /\ cancels' = Append(cancels,
           [op |-> "return", forwarded |-> src.hasReturn, result |-> "done"])
    /\ mapper' = [mapper EXCEPT !.closed = (@ \/ src.hasReturn)]
    /\ state' = Cancelled(state, mapper.closed)
    /\ UNCHANGED <<phase, outcomes, execCalls, inFlight>>
    /\ UNCHANGED cvars

\* variant of MappedReturn that forwards but leaves the mapper open
MappedReturn_open ==
    /\ pc = "returned"
    /\ phase = "idle"
    /\ calls.return + calls.throw < MaxCancel
    /\ calls' = [calls EXCEPT !.return = @ + 1]
    /\ src' = IF src.hasReturn THEN [src EXCEPT !.returnCalls = @ + 1] ELSE src
    /\ cancels' = Append(cancels,
           [op |-> "return", forwarded |-> src.hasReturn, result |-> "done"])
    /\ state' = Cancelled(state, mapper.closed)
    /\ UNCHANGED <<mapper, phase, outcomes, execCalls, inFlight>>
    /\ UNCHANGED cvars

\* return() on the mapped iterator: forwarded to the source when it has
\* return(); resolves with completion; the mapper is terminal afterwards
MappedReturn ==
    /\ pc = "returned"
    /\ phase = "idle"
    /\ calls.return + calls.throw < MaxCancel
    /\ calls' = [calls EXCEPT !.return = @ + 1]
    /\ src' = IF src.hasReturn
              THEN [src EXCEPT !.returnCalls = @ + 1, !.done = TRUE]
              ELSE src
    /\ cancels' = Append(cancels,
           [op |-> "return", forwarded |-> src.hasReturn, result |-> "done"])
    /\ mapper' = [mapper EXCEPT !.closed = TRUE]
    /\ state' = Cancelled(state, mapper.closed)
    /\ UNCHANGED <<phase, outcomes, execCalls, inFlight>>
    /\ UNCHANGED cvars

\* variant of MappedThrow that forwards but leaves the mapper open
MappedThrow_open ==
    /\ pc = "returned"
    /\ phase = "idle"
    /\ calls.return + calls.throw < MaxCancel
    /\ calls' = [calls EXCEPT !.throw = @ + 1]
    /\ src' = IF src.hasThrow THEN [src EXCEPT !.throwCalls = @ + 1] ELSE src
    /\ cancels' = Append(cancels,
           [op |-> "throw", forwarded |-> src.hasThrow, result |-> "reject"])
    /\ state' = Cancelled(state, mapper.closed)
    /\ UNCHANGED <<mapper, phase, outcomes, execCalls, inFlight>>
    /\ UNCHANGED cvars

\* throw(error) on the mapped iterator: forwarded to the source when it has
\* throw(); rejects with the error; the mapper is terminal afterwards
MappedThrow ==
    /\ pc = "returned"
    /\ phase = "idle"
    /\ calls.return + calls.throw < MaxCancel
    /\ calls' = [calls EXCEPT !.throw = @ + 1]
    /\ src' = IF src.hasThrow
              THEN [src EXCEPT !.throwCalls = @ + 1, !.done = TRUE]
              ELSE src
    /\ cancels' = Append(cancels,
           [op |-> "throw", forwarded |-> src.hasThrow, result |-> "reject"])
    /\ mapper' = [mapper EXCEPT !.closed = TRUE]
    /\ state' = Cancelled(state, mapper.closed)
    /\ UNCHANGED <<phase, outcomes, execCalls, inFlight>>
    /\ UNCHANGED cvars

Next ==
    \/ BuildExecutionContext
    \/ CollectFields
    \/ GetFieldDef
    \/ ResolveFieldEventStream
    \/ CheckError
    \/ CheckAsyncIterable
    \/ SubscribeReturn
    \/ MappedNext
    \/ SourceYields
    \/ SourceCompletes
    \/ SourceRejects
    \/ ExecuteResolves
    \/ ExecuteRejects
    \/ MappedReturn
    \/ MappedThrow

Spec == Init /\ [][Next]_vars
(* ------------------------------ properties ----------------------------- *)
ValuesOf(seq) == SelectSeq(seq, LAMBDA o : o.type = "value")
RejectsOf(seq) == SelectSeq(seq, LAMBDA o : o.type = "reject")
DistinctKeys(document) ==
    {ResponseKey(document.selections[i]) : i \in DOMAIN document.selections}
PastRootFieldCheck == pc \notin {"createSourceEventStream", "collectFields"}
PastErrorCheck ==
    pc \notin {"createSourceEventStream", "collectFields", "getFieldDef",
               "resolve", "checkError"}
ConstructionOver == pc \in {"thrown", "returned"}

\* C1: as long as neither the source nor an execution pass has rejected and
\* the consumer has not cancelled, the k-th next() of the mapped iterator
\* settled with the result of executing the k-th source event, for every
\* event the source emitted, and with completion after the last one; execute
\* was invoked once per emitted event, for the events in source order.
C1_InOrderDelivery ==
    (cancels = <<>> /\ RejectsOf(outcomes) = <<>>) =>
        /\ Len(execCalls) = src.emitted
        /\ \A k \in DOMAIN execCalls : execCalls[k].rootValue = Event(k)
        /\ \A k \in DOMAIN outcomes :
              outcomes[k] = IF k <= src.emitted THEN Outcome("value", k, "") ELSE Done
        /\ (src.done /\ phase = "idle") => Len(ValuesOf(outcomes)) = src.emitted

C1_Witness ==
    /\ src.done /\ src.emitted = 2 /\ cancels = <<>>
    /\ outcomes = <<Outcome("value", 1, ""), Outcome("value", 2, ""), Done>>
    /\ Len(execCalls) = 2

\* C2: every execute() call of a subscription gets subscribe's schema,
\* document, contextValue, variableValues and operationName, and as root
\* value the source event being processed, never subscribe's rootValue.
C2_ArgumentsThreaded ==
    \A i \in DOMAIN execCalls :
        /\ execCalls[i].schema = args.schema
        /\ execCalls[i].document = args.document
        /\ execCalls[i].contextValue = args.contextValue
        /\ execCalls[i].variableValues = args.variableValues
        /\ execCalls[i].operationName = args.operationName
        /\ execCalls[i].rootValue = Event(i)
        /\ execCalls[i].rootValue # args.rootValue
        /\ (i = Len(execCalls) /\ phase = "awaitExecute") =>
               src.log[Len(src.log)] = Outcome("value", execCalls[i].rootValue.n, "")

C2_Witness ==
    /\ Len(execCalls) = 2
    /\ args.rootValue = NullRoot
    /\ execCalls[2] = [schema |-> args.schema, document |-> args.document,
                       rootValue |-> Event(2), contextValue |-> "C",
                       variableValues |-> "V", operationName |-> "N"]

\* C3: a failure of any step of createSourceEventStream is thrown to the
\* caller of subscribe: then nothing was returned, the subscription is not
\* ACTIVE, execute was not invoked, the source was not pulled and nothing was
\* delivered; and a mapped iterator exists only when every step succeeded.
ConstructionSucceeds ==
    /\ args.document.valid
    /\ Cardinality(DistinctKeys(args.document)) = 1
    /\ fieldDef.kind # "absent"
    /\ ~resolverRaw.threw
    /\ resolverRaw.val.kind = "stream"

C3_FailureIsSynchronous ==
    /\ (pc = "thrown") <=> (thrown # NoValue)
    /\ thrown # NoValue =>
          /\ returned = NoValue
          /\ state = "REJECTED"
          /\ execCalls = <<>> /\ outcomes = <<>> /\ cancels = <<>>
          /\ src.nextCalls = 0 /\ calls = NoCalls
    /\ ConstructionOver => ((thrown = NoValue) <=> ConstructionSucceeds)
    /\ (returned # NoValue \/ state \notin {"CREATED", "REJECTED"}) =>
          ConstructionSucceeds

C3_Witness ==
    /\ thrown = Val("invariant", MustReturnAsyncIterable)
    /\ Len(resolverCalls) = 1
    /\ state = "REJECTED" /\ returned = NoValue

\* C4: once the root-field check has run on a document that selects two root
\* fields (two response keys), construction has failed with the 'exactly one
\* root field' violation; construction is past that check without that
\* violation only when the collected map has exactly one entry.
C4_ExactlyOneRootField ==
    (args.document.valid /\ PastRootFieldCheck) =>
        /\ Len(fields) = Cardinality(DistinctKeys(args.document))
        /\ Cardinality(DistinctKeys(args.document)) = 2 =>
              /\ thrown = Val("invariant", ExactlyOneRootField)
              /\ resolverCalls = <<>>
        /\ (thrown = Val("invariant", ExactlyOneRootField)) <=> (Len(fields) # 1)

C4_Witness ==
    /\ thrown = Val("invariant", ExactlyOneRootField)
    /\ Len(args.document.selections) = 2
    /\ args.document.selections[1].name = args.document.selections[2].name
    /\ Len(fields) = 2

\* C5: the resolver invoked is the field's declared subscribe resolver when
\* the schema declares one, else the default resolver, whose result is the
\* same-named property of rootValue; a non-error result that is not an
\* async-iterable fails construction with the 'must return Async Iterable'
\* violation and nothing is returned; an async-iterable result is itself the
\* source stream.
C5_ResolverAndIterableCheck ==
    resolverCalls # <<>> =>
        LET name == args.document.selections[1].name
            declared == args.schema[name] = "subscribe"
        IN  /\ resolverCalls[1].fn = IF declared THEN "subscribe" ELSE "defaultFieldResolver"
            /\ ~declared =>
                  /\ ~resolverRaw.threw
                  /\ resolverRaw.val.kind =
                        (IF args.rootValue.kind = "null" THEN "undefined"
                         ELSE args.rootValue.props[name])
            /\ (ConstructionOver /\ ~resolverRaw.threw
                  /\ resolverRaw.val.kind \notin {"error", "stream"}) =>
                  /\ thrown = Val("invariant", MustReturnAsyncIterable)
                  /\ returned = NoValue
            /\ (PastErrorCheck /\ pc # "checkAsyncIterable"
                  /\ ~resolverRaw.threw /\ resolverRaw.val.kind = "stream") =>
                  /\ thrown = NoValue
                  /\ subscription = resolverRaw.val
                  /\ pc = "returned" => returned = Val("mapped", resolverRaw.val.id)

C5_Witness ==
    /\ Len(resolverCalls) = 1
    /\ resolverCalls[1].fn = "defaultFieldResolver"
    /\ args.rootValue.kind = "object"
    /\ resolverRaw.val.kind = "plain"
    /\ thrown = Val("invariant", MustReturnAsyncIterable)

ReturnForwarded ==
    (calls'.return = calls.return + 1) =>
        /\ src'.returnCalls = src.returnCalls + (IF src.hasReturn THEN 1 ELSE 0)
        /\ mapper'.closed

NothingAfterCancel ==
    (calls.return + calls.throw > 0) =>
        /\ execCalls' = execCalls
        /\ ValuesOf(outcomes') = ValuesOf(outcomes)
        /\ src'.nextCalls = src.nextCalls

C7_ReturnCancels ==
    /\ [](src.returnCalls = IF src.hasReturn THEN calls.return ELSE 0)
    /\ [][ReturnForwarded]_vars
    /\ [][NothingAfterCancel]_vars

C7_Witness ==
    /\ src.hasReturn /\ calls.return = 1 /\ src.returnCalls = 1
    /\ src.emitted = 1
    /\ outcomes = <<Outcome("value", 1, ""), Done>>
    /\ state = "CANCELLED"

\* C8: the source is never pulled more often than the consumer called next()
\* (not at all before the first next()); a pull is issued only when every
\* earlier next() has settled, and at most one execute() pass is in flight.
C8_PullOnDemand ==
    /\ src.nextCalls <= calls.next
    /\ pc # "returned" => src.nextCalls = 0
    /\ inFlight <= 1
    /\ Len(execCalls) <= src.nextCalls
    /\ IF phase = "idle"
       THEN Len(outcomes) = calls.next /\ inFlight = 0
       ELSE Len(outcomes) = calls.next - 1 /\ src.nextCalls = calls.next
    /\ (phase = "awaitExecute") <=> (inFlight = 1)

C8_Witness ==
    /\ calls.next = 2 /\ src.nextCalls = 2
    /\ phase = "awaitExecute" /\ inFlight = 1
    /\ outcomes = <<Outcome("value", 1, "")>>

\* C9: whether the resolver threw an error or returned an Error instance,
\* once the error check has run that error is what subscribe threw, the
\* async-iterable check was not made and nothing was returned.
C9_ThrownAndReturnedErrorAlike ==
    (PastErrorCheck /\ (resolverRaw.threw \/ resolverRaw.val.kind = "error")) =>
        /\ resolverRaw.val.kind = "error"
        /\ thrown = resolverRaw.val
        /\ pc = "thrown"
        /\ iterableChecks = 0
        /\ returned = NoValue /\ state = "REJECTED"

C9_Witness ==
    /\ ~resolverRaw.threw
    /\ resolverRaw.val = Val("error", "returned by f")
    /\ thrown = resolverRaw.val
    /\ iterableChecks = 0

C9_WitnessThrown ==
    /\ resolverRaw.threw
    /\ thrown = Val("error", "thrown by f")
    /\ iterableChecks = 0

\* C10 as stated: COMPLETED, ERRORED and CANCELLED are terminal: in each of
\* them the state never changes and no ExecutionResult is delivered.
TerminalStep ==
    state \in TerminalStates =>
        /\ state' = state
        /\ ValuesOf(outcomes') = ValuesOf(outcomes)

Terminal == state \in {"COMPLETED", "CANCELLED"} \/ (state = "ERRORED" /\ mapper.closed)

Settled(t) ==
    Len(outcomes') > Len(outcomes) /\ outcomes'[Len(outcomes')].type = t

StateMachineStep ==
    /\ state = "CREATED" => state' \in {"CREATED", "ACTIVE", "REJECTED"}
    /\ state = "REJECTED" => state' = "REJECTED"
    /\ state = "ACTIVE" =>
          /\ state' \in {"ACTIVE"} \cup TerminalStates
          /\ Settled("done") <=> (state' = "COMPLETED")
          /\ Settled("reject") <=> (state' = "ERRORED")
          /\ (calls'.return + calls'.throw > calls.return + calls.throw)
                <=> (state' = "CANCELLED")
    /\ Terminal =>
          /\ state' = state
          /\ ValuesOf(outcomes') = ValuesOf(outcomes)
          /\ execCalls' = execCalls

ExecutionRejected ==
    /\ Len(outcomes') = Len(outcomes) + 1
    /\ outcomes'[Len(outcomes')].reason = "execute"

RejectionIsLocal ==
    /\ outcomes' = Append(outcomes, Outcome("reject", src.emitted, "execute"))
    /\ src' = src
    /\ execCalls' = execCalls
    /\ calls' = calls
    /\ phase' = "idle" /\ inFlight' = 0

ExecutionRejectionStep == ExecutionRejected => (RejectionIsLocal /\ ~mapper'.closed)

AmendedRejectionStep ==
    ExecutionRejected =>
        /\ RejectionIsLocal
        /\ mapper'.closed = mapper.terminalAfterError

C12_NoTransformOnCompletion ==
    /\ Len(execCalls) = Len(ValuesOf(src.log))
    /\ \A i \in DOMAIN execCalls :
          execCalls[i].rootValue = Event(ValuesOf(src.log)[i].n)
    /\ \A k \in DOMAIN src.log :
          src.log[k].type = "done" => (Len(outcomes) >= k /\ outcomes[k] = Done)

C12_Witness ==
    /\ src.log = <<Outcome("value", 1, ""), Done, Done>>
    /\ outcomes = <<Outcome("value", 1, ""), Done, Done>>
    /\ Len(execCalls) = 1
    /\ cancels = <<>>

\* C13: a return() (throw()) on the mapped iterator whose source has no
\* return() (throw()) makes no call on the source, resolves with completion
\* (rejects with the error) and closes the mapper; after it every next()
\* settles with completion, delivers nothing, and neither the source is
\* pulled nor execute invoked.
Unsupported(c) ==
    IF c.op = "return" THEN ~src.hasReturn ELSE ~src.hasThrow

UnsupportedCancelStep ==
    (Len(cancels') = Len(cancels) + 1 /\ Unsupported(cancels'[Len(cancels')])) =>
        /\ src' = src
        /\ ~cancels'[Len(cancels')].forwarded
        /\ cancels'[Len(cancels')].result =
              (IF cancels'[Len(cancels')].op = "return" THEN "done" ELSE "reject")
        /\ mapper'.closed
        /\ state' \in TerminalStates

AfterUnsupportedCancel ==
    (\E i \in DOMAIN cancels : Unsupported(cancels[i])) =>
        /\ src'.nextCalls = src.nextCalls
        /\ src'.log = src.log
        /\ execCalls' = execCalls
        /\ state' = state
        /\ Len(outcomes') > Len(outcomes) => outcomes' = Append(outcomes, Done)

C13_UnsupportedCancelIsTerminal ==
    /\ [](~src.hasReturn => src.returnCalls = 0)
    /\ [](~src.hasThrow => src.throwCalls = 0)
    /\ [](\A i \in DOMAIN cancels : cancels[i].forwarded <=> ~Unsupported(cancels[i]))
    /\ [][UnsupportedCancelStep]_vars
    /\ [][AfterUnsupportedCancel]_vars

C13_Witness ==
    /\ ~src.hasReturn /\ src.hasThrow
    /\ cancels = <<[op |-> "return", forwarded |-> FALSE, result |-> "done"]>>
    /\ src.returnCalls = 0 /\ src.throwCalls = 0 /\ ~src.done
    /\ src.nextCalls = 1
    /\ outcomes = <<Outcome("value", 1, ""), Done, Done>>

\* C14: whenever construction has failed, the resolver was not invoked, or it
\* threw, or its result was an error or not an async-iterable, and no source
\* stream was obtained; once the resolver has returned an async-iterable no
\* step of construction fails.
C14_NoStreamLeftOpen ==
    /\ thrown # NoValue =>
          /\ \/ resolverCalls = <<>>
             \/ resolverRaw.threw
             \/ resolverRaw.val.kind \in {"error", "plain", "undefined"}
          /\ src = NewSource
          /\ ~isAsyncIterable(subscription)
    /\ (resolverCalls # <<>> /\ ~resolverRaw.threw /\ isAsyncIterable(resolverRaw.val)) =>
          /\ thrown = NoValue
          /\ pc \in {"checkError", "checkAsyncIterable", "mapAsyncIterator", "returned"}

C14_Witness ==
    /\ thrown = Val("invariant", MustReturnAsyncIterable)
    /\ Len(resolverCalls) = 1
    /\ args.rootValue = NullRoot
    /\ resolverRaw.val = Val("undefined", "")
    /\ src = NewSource

C14_WitnessNoFailure ==
    /\ resolverRaw.val.kind = "stream"
    /\ pc = "returned" /\ thrown = NoValue

\* C15: once the field lookup has run (valid context, one response key), the
\* 'not defined by the schema' violation was thrown exactly when the schema
\* has no field named like the first field node selected under that key (its
\* name, not its alias); the resolver, when invoked, got that field name and
\* a path of one segment, the response key.
PastFieldLookup ==
    pc \notin {"createSourceEventStream", "collectFields", "getFieldDef"}

C15_LookupByFieldName ==
    (PastFieldLookup /\ Len(fields) = 1) =>
        LET first == args.document.selections[1]
        IN  /\ fields[1].key = ResponseKey(first)
            /\ fields[1].nodes[1] = first
            /\ fieldDef.name = first.name
            /\ (args.schema[first.name] = "absent")
                  <=> (thrown = Val("invariant", NotDefinedBySchema))
            /\ resolverCalls # <<>> =>
                  /\ args.schema[first.name] # "absent"
                  /\ resolverCalls[1].fieldName = first.name
                  /\ resolverCalls[1].path = <<ResponseKey(first)>>

C15_Witness ==
    /\ args.document.selections =
          <<[alias |-> "a", name |-> "f"], [alias |-> "a", name |-> "g"]>>
    /\ args.schema["f"] = "absent" /\ args.schema["g"] = "subscribe"
    /\ Len(fields) = 1
    /\ thrown = Val("invariant", NotDefinedBySchema)
    /\ resolverCalls = <<>>

C15_WitnessPath ==
    /\ args.document.selections = <<[alias |-> "a", name |-> "g"]>>
    /\ Len(resolverCalls) = 1
    /\ resolverCalls[1].fieldName = "g"
    /\ resolverCalls[1].path = <<"a">>

\* C16: the event-producing resolver is invoked at most once per subscribe
\* call, with subscribe's rootValue as source, and only for a request whose
\* context was built, whose selection has one response key and whose field
\* the schema defines; it has been invoked exactly once when the mapped
\* iterator exists, however far that is consumed; and execute is not invoked
\* before the first next() on the mapped iterator.
C16_ResolverOnceExecuteLazy ==
    /\ Len(resolverCalls) <= 1
    /\ resolverCalls # <<>> =>
          /\ resolverCalls[1].source = args.rootValue
          /\ args.document.valid
          /\ Cardinality(DistinctKeys(args.document)) = 1
          /\ args.schema[args.document.selections[1].name] # "absent"
          /\ pc \notin {"createSourceEventStream", "collectFields",
                        "getFieldDef", "resolve"}
    /\ pc \in {"checkError", "checkAsyncIterable", "mapAsyncIterator", "returned"} =>
          Len(resolverCalls) = 1
    /\ calls.next = 0 => (execCalls = <<>> /\ inFlight = 0 /\ src.nextCalls = 0)

C16_Witness ==
    /\ pc = "returned"
    /\ Len(resolverCalls) = 1
    /\ resolverCalls[1].fn = "subscribe"
    /\ resolverCalls[1].source = args.rootValue
    /\ args.rootValue.kind = "object"
    /\ calls.next = 3 /\ Len(execCalls) = 3

\* C17: when construction is over, what subscribe threw is the error of the
\* earliest violated step in the order request validation, 'exactly one root
\* field', 'not defined by the schema', resolver error, 'must return Async
\* Iterable' (nothing when no step is violated), a function of the request
\* and of what the resolver did; the steps after the failing one did not run.
EarliestViolation ==
    IF ~args.document.valid
    THEN Val("validation", "RequestValidationError")
    ELSE IF Cardinality(DistinctKeys(args.document)) # 1
    THEN Val("invariant", ExactlyOneRootField)
    ELSE IF args.schema[args.document.selections[1].name] = "absent"
    THEN Val("invariant", NotDefinedBySchema)
    ELSE IF resolverRaw.val.kind = "error"
    THEN resolverRaw.val
    ELSE IF resolverRaw.val.kind # "stream"
    THEN Val("invariant", MustReturnAsyncIterable)
    ELSE NoValue

C17_FirstFailingCheckWins ==
    /\ ConstructionOver => thrown = EarliestViolation
    /\ ~ConstructionOver => thrown = NoValue
    /\ thrown.kind = "validation" => fields = <<>>
    /\ (thrown.kind = "validation" \/ thrown = Val("invariant", ExactlyOneRootField)) =>
          fieldDef.name = ""
    /\ (thrown.kind = "validation" \/ thrown = Val("invariant", ExactlyOneRootField)
          \/ thrown = Val("invariant", NotDefinedBySchema)) => resolverCalls = <<>>
    /\ thrown.kind = "error" => iterableChecks = 0

C17_Witness ==
    /\ args.document.valid
    /\ args.document.selections =
          <<[alias |-> "", name |-> "f"], [alias |-> "", name |-> "g"]>>
    /\ args.schema["f"] = "absent" /\ args.schema["g"] = "absent"
    /\ args.rootValue = NullRoot
    /\ thrown = Val("invariant", ExactlyOneRootField)

====
